---- MODULE Spec2Model ----
(***************************************************************************)
(* Event authorization layer of the tsuru API: the registry of per-kind    *)
(* permission checkers (evtPermMap), the listing-filter builder            *)
(* (filterForPerms) and the handlers eventList, eventInfo and eventCancel. *)
(***************************************************************************)
EXTENDS Naturals, Sequences, FiniteSets, TLC

(* ------------------------------------------------------------------ *)
(* Bounds of the model                                                 *)
(* ------------------------------------------------------------------ *)

\* Longest list of permissions of a token whose listing scope is resolved.
MaxPerms == 2

\* Longest list of permissions of a token that fetches or cancels an event.
MaxEventPerms == 1

(* ------------------------------------------------------------------ *)
(* Target kinds, context kinds, schemes                                *)
(* ------------------------------------------------------------------ *)

TargetTypeApp == "app"
TargetTypeTeam == "team"
TargetTypeService == "service"
TargetTypeServiceInstance == "service-instance"
TargetTypePool == "pool"
TargetTypeUser == "user"
TargetTypeContainer == "container"
TargetTypeNode == "node"
TargetTypeIaas == "iaas"
TargetTypeRole == "role"

\* The keys of evtPermMap.
evtPermMap ==
  { TargetTypeApp, TargetTypeTeam, TargetTypeService, TargetTypeServiceInstance,
    TargetTypePool, TargetTypeUser, TargetTypeContainer, TargetTypeNode,
    TargetTypeIaas, TargetTypeRole }

readCheckKind == "read"
updateCheckKind == "update"

CtxGlobal == "global"
CtxTeam == "team"
CtxPool == "pool"
CtxApp == "app"
CtxService == "service"
CtxServiceInstance == "service-instance"
CtxIaaS == "iaas"
CtxUser == "user"

Context(ctxType, value) == [CtxType |-> ctxType, Value |-> value]

\* permission.Contexts(ctxType, values): one context per value, in order.
Contexts(ctxType, values) ==
  [i \in 1..Len(values) |-> Context(ctxType, values[i])]

PermAppReadEvents == "app.read.events"
PermAppUpdateEvents == "app.update.events"
PermTeamReadEvents == "team.read.events"
PermTeamUpdateEvents == "team.update.events"
PermServiceReadEvents == "service.read.events"
PermServiceUpdateEvents == "service.update.events"
PermServiceInstanceReadEvents == "service-instance.read.events"
PermServiceInstanceUpdateEvents == "service-instance.update.events"
PermPoolReadEvents == "pool.read.events"
PermPoolUpdateEvents == "pool.update.events"
PermUserReadEvents == "user.read.events"
PermUserUpdateEvents == "user.update.events"
PermMachineReadEvents == "machine.read.events"
PermMachineUpdateEvents == "machine.update.events"
PermRoleReadEvents == "role.read.events"
PermRoleUpdateEvents == "role.update.events"

\* perms[kind] of each checker's check: the scheme of the check kind. The
\* read scheme is the one the checker's filter gives ContextsForPermission.
perms(targetType, kind) ==
  LET read == kind = readCheckKind
  IN CASE targetType = TargetTypeApp ->
            IF read THEN PermAppReadEvents ELSE PermAppUpdateEvents
       [] targetType = TargetTypeTeam ->
            IF read THEN PermTeamReadEvents ELSE PermTeamUpdateEvents
       [] targetType = TargetTypeService ->
            IF read THEN PermServiceReadEvents ELSE PermServiceUpdateEvents
       [] targetType = TargetTypeServiceInstance ->
            IF read THEN PermServiceInstanceReadEvents
            ELSE PermServiceInstanceUpdateEvents
       [] targetType = TargetTypePool ->
            IF read THEN PermPoolReadEvents ELSE PermPoolUpdateEvents
       [] targetType = TargetTypeUser ->
            IF read THEN PermUserReadEvents ELSE PermUserUpdateEvents
       [] targetType = TargetTypeContainer ->
            IF read THEN PermAppReadEvents ELSE PermAppUpdateEvents
       [] targetType = TargetTypeNode ->
            IF read THEN PermPoolReadEvents ELSE PermPoolUpdateEvents
       [] targetType = TargetTypeIaas ->
            IF read THEN PermMachineReadEvents ELSE PermMachineUpdateEvents
       [] targetType = TargetTypeRole ->
            IF read THEN PermRoleReadEvents ELSE PermRoleUpdateEvents

(* ------------------------------------------------------------------ *)
(* Permission evaluation (package permission)                          *)
(* ------------------------------------------------------------------ *)

RECURSIVE ctxsOf(_, _, _)
ctxsOf(ps, scheme, i) ==
  IF i > Len(ps) THEN <<>>
  ELSE IF ps[i].Scheme = scheme
       THEN <<ps[i].Context>> \o ctxsOf(ps, scheme, i + 1)
       ELSE ctxsOf(ps, scheme, i + 1)

\* The contexts in which the token holds the scheme, in the token's order.
ContextsForPermission(t, scheme) == ctxsOf(t.Permissions, scheme, 1)

\* Whether the token holds the scheme in one of the given contexts; a Global
\* grant covers every context.
Check(t, scheme, contexts) ==
  \E i \in 1..Len(t.Permissions) :
     /\ t.Permissions[i].Scheme = scheme
     /\ \/ t.Permissions[i].Context.CtxType = CtxGlobal
        \/ \E j \in 1..Len(contexts) : contexts[j] = t.Permissions[i].Context

(* ------------------------------------------------------------------ *)
(* event.TargetFilter: Values is a Go slice, nil or a list             *)
(* ------------------------------------------------------------------ *)

NilValues == [isNil |-> TRUE, elems |-> <<>>]
SliceOf(s) == [isNil |-> FALSE, elems |-> s]
\* Go's append: the result is never nil.
append(values, x) == [isNil |-> FALSE, elems |-> Append(values.elems, x)]

TargetFilter(type, values) == [Type |-> type, Values |-> values]

NoErr == ""
\* (*event.TargetFilter, error) as returned by a checker's filter.
RetNil == [err |-> NoErr, isNil |-> TRUE, allowed |-> TargetFilter("", NilValues)]
RetErr(e) == [err |-> e, isNil |-> TRUE, allowed |-> TargetFilter("", NilValues)]
RetAllowed(tf) == [err |-> NoErr, isNil |-> FALSE, allowed |-> tf]

(* ------------------------------------------------------------------ *)
(* State                                                               *)
(* ------------------------------------------------------------------ *)

VARIABLES
  token,   \* the auth.Token of the actor: user name and granted permissions
  store,   \* the resource stores the checkers consult
  evt,     \* the stored event
  resp     \* the last request: handler, inputs, outcome, collaborator calls

vars == <<token, store, evt, resp>>

\* The error of a store that cannot be reached.
ErrUpstream(name) == name \o ": upstream failure"
ErrNotFound == "not found"

(* ------------------------------------------------------------------ *)
(* Resource stores (packages app, auth, service, provision)            *)
(* ------------------------------------------------------------------ *)

\* Whether a context selects the application (appFilterByContext).
appInContexts(a, contexts) ==
  \E i \in 1..Len(contexts) :
     \/ contexts[i].CtxType = CtxGlobal
     \/ /\ contexts[i].CtxType = CtxTeam
        /\ \E j \in 1..Len(a.Teams) : a.Teams[j] = contexts[i].Value
     \/ contexts[i].CtxType = CtxApp /\ contexts[i].Value = a.Name
     \/ contexts[i].CtxType = CtxPool /\ contexts[i].Value = a.Pool

\* app.List(appFilterByContext(contexts, nil))
appList(contexts) ==
  IF "app" \in store.down
  THEN [err |-> ErrUpstream("app"), apps |-> <<>>]
  ELSE [err |-> NoErr,
        apps |-> SelectSeq(store.apps, LAMBDA a : appInContexts(a, contexts))]

\* a.Units()
Units(a) ==
  IF "units" \in store.down
  THEN [err |-> ErrUpstream("units"), units |-> <<>>]
  ELSE [err |-> NoErr, units |-> a.Units]

NoApp == [Name |-> "", Teams |-> <<>>, Pool |-> "", Units |-> <<>>]

\* getAppFromContext(name, r)
getAppFromContext(name) ==
  IF "app" \in store.down THEN [err |-> ErrUpstream("app"), a |-> NoApp]
  ELSE IF \E i \in 1..Len(store.apps) : store.apps[i].Name = name
  THEN [err |-> NoErr,
        a |-> store.apps[CHOOSE i \in 1..Len(store.apps) : store.apps[i].Name = name]]
  ELSE [err |-> ErrNotFound, a |-> NoApp]

\* app.Provisioner.GetAppFromUnitID(unitID)
GetAppFromUnitID(unitID) ==
  IF "app" \in store.down THEN [err |-> ErrUpstream("app"), a |-> NoApp]
  ELSE IF \E i \in 1..Len(store.apps) :
            \E j \in 1..Len(store.apps[i].Units) : store.apps[i].Units[j] = unitID
  THEN [err |-> NoErr,
        a |-> store.apps[CHOOSE i \in 1..Len(store.apps) :
                \E j \in 1..Len(store.apps[i].Units) : store.apps[i].Units[j] = unitID]]
  ELSE [err |-> ErrNotFound, a |-> NoApp]

\* auth.GetTeam(name)
GetTeam(name) ==
  IF "team" \in store.down THEN [err |-> ErrUpstream("team"), Name |-> ""]
  ELSE IF name \in store.teams THEN [err |-> NoErr, Name |-> name]
  ELSE [err |-> ErrNotFound, Name |-> ""]

\* provision.GetPoolByName(name)
GetPoolByName(name) ==
  IF "pool" \in store.down THEN [err |-> ErrUpstream("pool"), Name |-> ""]
  ELSE IF name \in store.pools THEN [err |-> NoErr, Name |-> name]
  ELSE [err |-> ErrNotFound, Name |-> ""]

serviceInContexts(s, contexts) ==
  \E i \in 1..Len(contexts) :
     \/ contexts[i].CtxType = CtxGlobal
     \/ /\ contexts[i].CtxType = CtxTeam
        /\ \E j \in 1..Len(s.OwnerTeams) : s.OwnerTeams[j] = contexts[i].Value
     \/ contexts[i].CtxType = CtxService /\ contexts[i].Value = s.Name

\* provisionReadableServices(t, contexts)
provisionReadableServices(contexts) ==
  IF "service" \in store.down
  THEN [err |-> ErrUpstream("service"), services |-> <<>>]
  ELSE [err |-> NoErr,
        services |-> SelectSeq(store.services,
                               LAMBDA s : serviceInContexts(s, contexts))]

NoService == [Name |-> "", OwnerTeams |-> <<>>]

\* getService(name)
getService(name) ==
  IF "service" \in store.down THEN [err |-> ErrUpstream("service"), s |-> NoService]
  ELSE IF \E i \in 1..Len(store.services) : store.services[i].Name = name
  THEN [err |-> NoErr,
        s |-> store.services[CHOOSE i \in 1..Len(store.services) :
                               store.services[i].Name = name]]
  ELSE [err |-> ErrNotFound, s |-> NoService]

\* The composite identities of the model's universe of names:
\* <<serviceName, instanceName, serviceName + "/" + instanceName>>.
Composites ==
  { <<"svc1", "inst1", "svc1/inst1">>, <<"svc1", "gone", "svc1/gone">> }

\* serviceIntancePermName(serviceName, instanceName)
serviceIntancePermName(serviceName, instanceName) ==
  (CHOOSE c \in Composites : c[1] = serviceName /\ c[2] = instanceName)[3]

\* strings.SplitN(value, "/", 2)
SplitN(value) ==
  IF \E c \in Composites : c[3] = value
  THEN LET c == CHOOSE c \in Composites : c[3] = value IN <<c[1], c[2]>>
  ELSE <<value>>

instanceInContexts(si, contexts) ==
  \E i \in 1..Len(contexts) :
     \/ contexts[i].CtxType = CtxGlobal
     \/ /\ contexts[i].CtxType = CtxTeam
        /\ \E j \in 1..Len(si.Teams) : si.Teams[j] = contexts[i].Value
     \/ /\ contexts[i].CtxType = CtxServiceInstance
        /\ contexts[i].Value = serviceIntancePermName(si.ServiceName, si.Name)

\* readableInstances(t, contexts, "", "")
readableInstances(contexts) ==
  IF "service-instance" \in store.down
  THEN [err |-> ErrUpstream("service-instance"), instances |-> <<>>]
  ELSE [err |-> NoErr,
        instances |-> SelectSeq(store.instances,
                                LAMBDA si : instanceInContexts(si, contexts))]

NoInstance == [ServiceName |-> "", Name |-> "", Teams |-> <<>>]

\* getServiceInstanceOrError(serviceName, instanceName)
getServiceInstanceOrError(serviceName, instanceName) ==
  IF "service-instance" \in store.down THEN [err |-> ErrUpstream("service-instance"), si |-> NoInstance]
  ELSE IF \E i \in 1..Len(store.instances) :
            /\ store.instances[i].ServiceName = serviceName
            /\ store.instances[i].Name = instanceName
  THEN [err |-> NoErr,
        si |-> store.instances[CHOOSE i \in 1..Len(store.instances) :
                 /\ store.instances[i].ServiceName = serviceName
                 /\ store.instances[i].Name = instanceName]]
  ELSE [err |-> ErrNotFound, si |-> NoInstance]

\* app.Provisioner.(provision.NodeProvisioner): the type assertion's ok.
isNodeProvisioner == store.nodeProvisioner

\* nodeProvisioner.ListNodes(addrs); addrs a set of addresses, or "nil".
ListNodes(addrs) ==
  IF "node" \in store.down
  THEN [err |-> ErrUpstream("node"), nodes |-> <<>>]
  ELSE [err |-> NoErr,
        nodes |-> IF addrs = {"nil"} THEN store.nodes
                  ELSE SelectSeq(store.nodes, LAMBDA n : n.Address \in addrs)]

(* ------------------------------------------------------------------ *)
(* The checkers' filter(t)                                             *)
(* ------------------------------------------------------------------ *)

\* for _, a := range list { allowed.Values = append(allowed.Values, name(a)) }
RECURSIVE appendAll(_, _, _)
appendAll(values, names, i) ==
  IF i > Len(names) THEN values
  ELSE appendAll(append(values, names[i]), names, i + 1)

\* ownLoop without the break at a Global context: the loop goes on and
\* appends the contexts that follow it.
RECURSIVE ownLoop_noBreak(_, _, _, _)
ownLoop_noBreak(contexts, own, values, i) ==
  IF i > Len(contexts) THEN values
  ELSE IF contexts[i].CtxType = CtxGlobal
       THEN ownLoop_noBreak(contexts, own, NilValues, i + 1)
  ELSE IF contexts[i].CtxType = own
       THEN ownLoop_noBreak(contexts, own, append(values, contexts[i].Value), i + 1)
       ELSE ownLoop_noBreak(contexts, own, values, i + 1)

\* The loop over the contexts shared by the team, pool and iaas checkers:
\* a Global context resets Values to nil and stops, a context of the
\* checker's own type appends its value.
RECURSIVE ownLoop(_, _, _, _)
ownLoop(contexts, own, values, i) ==
  IF i > Len(contexts) THEN values
  ELSE IF contexts[i].CtxType = CtxGlobal THEN NilValues
  ELSE IF contexts[i].CtxType = own
       THEN ownLoop(contexts, own, append(values, contexts[i].Value), i + 1)
       ELSE ownLoop(contexts, own, values, i + 1)

\* The loop of the user and role checkers: only a Global context acts.
RECURSIVE globalLoop(_, _, _)
globalLoop(contexts, values, i) ==
  IF i > Len(contexts) THEN values
  ELSE IF contexts[i].CtxType = CtxGlobal THEN NilValues
  ELSE globalLoop(contexts, values, i + 1)

appFilter(t) ==
  LET contexts == ContextsForPermission(t, perms(TargetTypeApp, readCheckKind))
      l == appList(contexts)
  IN IF Len(contexts) = 0 THEN RetNil
     ELSE IF l.err # NoErr THEN RetErr(l.err)
     ELSE IF Len(l.apps) = 0 THEN RetNil
     ELSE RetAllowed(TargetFilter(TargetTypeApp,
            appendAll(NilValues, [i \in 1..Len(l.apps) |-> l.apps[i].Name], 1)))

\* teamFilter without the early return for an actor with no context.
teamFilter_noEmptyCheck(t) ==
  LET contexts == ContextsForPermission(t, perms(TargetTypeTeam, readCheckKind))
  IN RetAllowed(TargetFilter(TargetTypeTeam,
                             ownLoop(contexts, CtxTeam, NilValues, 1)))

teamFilter(t) ==
  LET contexts == ContextsForPermission(t, perms(TargetTypeTeam, readCheckKind))
  IN IF Len(contexts) = 0 THEN RetNil
     ELSE RetAllowed(TargetFilter(TargetTypeTeam,
                                  ownLoop(contexts, CtxTeam, NilValues, 1)))

serviceFilter(t) ==
  LET contexts == ContextsForPermission(t, perms(TargetTypeService, readCheckKind))
      l == provisionReadableServices(contexts)
  IN IF Len(contexts) = 0 THEN RetNil
     ELSE IF l.err # NoErr THEN RetErr(l.err)
     ELSE IF Len(l.services) = 0 THEN RetNil
     ELSE RetAllowed(TargetFilter(TargetTypeService,
            appendAll(NilValues,
                      [i \in 1..Len(l.services) |-> l.services[i].Name], 1)))

serviceInstanceFilter(t) ==
  LET contexts ==
        ContextsForPermission(t, perms(TargetTypeServiceInstance, readCheckKind))
      l == readableInstances(contexts)
  IN IF Len(contexts) = 0 THEN RetNil
     ELSE IF l.err # NoErr THEN RetErr(l.err)
     ELSE IF Len(l.instances) = 0 THEN RetNil
     ELSE RetAllowed(TargetFilter(TargetTypeServiceInstance,
            appendAll(NilValues,
                      [i \in 1..Len(l.instances) |->
                         serviceIntancePermName(l.instances[i].ServiceName,
                                                l.instances[i].Name)], 1)))

poolFilter(t) ==
  LET contexts == ContextsForPermission(t, perms(TargetTypePool, readCheckKind))
  IN IF Len(contexts) = 0 THEN RetNil
     ELSE RetAllowed(TargetFilter(TargetTypePool,
                                  ownLoop(contexts, CtxPool, NilValues, 1)))

\* userFilter without the self-scope default: an actor with no context gets
\* no User scope.
userFilter_noSelf(t) ==
  LET contexts == ContextsForPermission(t, perms(TargetTypeUser, readCheckKind))
      values == SliceOf(<<t.UserName>>)
  IN IF Len(contexts) = 0 THEN RetNil
     ELSE RetAllowed(TargetFilter(TargetTypeUser, globalLoop(contexts, values, 1)))

userFilter(t) ==
  LET contexts == ContextsForPermission(t, perms(TargetTypeUser, readCheckKind))
      values == SliceOf(<<t.UserName>>)
  IN IF Len(contexts) = 0 THEN RetAllowed(TargetFilter(TargetTypeUser, values))
     ELSE RetAllowed(TargetFilter(TargetTypeUser, globalLoop(contexts, values, 1)))

iaasFilter(t) ==
  LET contexts == ContextsForPermission(t, perms(TargetTypeIaas, readCheckKind))
  IN IF Len(contexts) = 0 THEN RetNil
     ELSE RetAllowed(TargetFilter(TargetTypeIaas,
                                  ownLoop(contexts, CtxIaaS, NilValues, 1)))

\* The loop over the visible applications' units; an error of a.Units()
\* ends it.
RECURSIVE unitsLoop(_, _, _)
unitsLoop(apps, values, i) ==
  IF i > Len(apps) THEN [err |-> NoErr, values |-> values]
  ELSE LET u == Units(apps[i])
       IN IF u.err # NoErr THEN [err |-> u.err, values |-> values]
          ELSE unitsLoop(apps, appendAll(values, u.units, 1), i + 1)

containerFilter(t) ==
  LET contexts == ContextsForPermission(t, perms(TargetTypeContainer, readCheckKind))
      l == appList(contexts)
      r == unitsLoop(l.apps, SliceOf(<<>>), 1)
  IN IF Len(contexts) = 0 THEN RetNil
     ELSE IF l.err # NoErr THEN RetErr(l.err)
     ELSE IF Len(l.apps) = 0 THEN RetNil
     ELSE IF r.err # NoErr THEN RetErr(r.err)
     ELSE RetAllowed(TargetFilter(TargetTypeContainer, r.values))

\* for _, n := range nodes { if n.Pool() == ctx.Value { append n.Address() } }
RECURSIVE appendNodes(_, _, _, _)
appendNodes(values, nodes, pool, i) ==
  IF i > Len(nodes) THEN values
  ELSE IF nodes[i].Pool = pool
       THEN appendNodes(append(values, nodes[i].Address), nodes, pool, i + 1)
       ELSE appendNodes(values, nodes, pool, i + 1)

\* The loop of the node checker. nodes is the list fetched so far, fetched
\* records whether it is non-nil; the registry is asked at the first Pool
\* context, and again while its answer was empty.
RECURSIVE nodeLoop(_, _, _, _, _)
nodeLoop(contexts, values, nodes, fetched, i) ==
  IF i > Len(contexts) THEN [err |-> NoErr, values |-> values]
  ELSE IF contexts[i].CtxType = CtxGlobal THEN [err |-> NoErr, values |-> NilValues]
  ELSE IF contexts[i].CtxType = CtxPool
  THEN IF ~fetched /\ isNodeProvisioner
       THEN LET l == ListNodes({"nil"})
            IN IF l.err # NoErr THEN [err |-> l.err, values |-> values]
               ELSE nodeLoop(contexts,
                             appendNodes(values, l.nodes, contexts[i].Value, 1),
                             l.nodes, Len(l.nodes) > 0, i + 1)
       ELSE nodeLoop(contexts, appendNodes(values, nodes, contexts[i].Value, 1),
                     nodes, fetched, i + 1)
  ELSE nodeLoop(contexts, values, nodes, fetched, i + 1)

nodeFilter(t) ==
  LET contexts == ContextsForPermission(t, perms(TargetTypeNode, readCheckKind))
      r == nodeLoop(contexts, NilValues, <<>>, FALSE, 1)
  IN IF Len(contexts) = 0 THEN RetNil
     ELSE IF r.err # NoErr THEN RetErr(r.err)
     ELSE RetAllowed(TargetFilter(TargetTypeNode, r.values))

roleFilter(t) ==
  LET contexts == ContextsForPermission(t, perms(TargetTypeRole, readCheckKind))
  IN IF Len(contexts) = 0 THEN RetNil
     ELSE RetAllowed(TargetFilter(TargetTypeRole, globalLoop(contexts, NilValues, 1)))

\* checker.filter(t), dispatched on the checker's key in evtPermMap.
filter(targetType, t) ==
  CASE targetType = TargetTypeApp -> appFilter(t)
    [] targetType = TargetTypeTeam -> teamFilter(t)
    [] targetType = TargetTypeService -> serviceFilter(t)
    [] targetType = TargetTypeServiceInstance -> serviceInstanceFilter(t)
    [] targetType = TargetTypePool -> poolFilter(t)
    [] targetType = TargetTypeUser -> userFilter(t)
    [] targetType = TargetTypeContainer -> containerFilter(t)
    [] targetType = TargetTypeNode -> nodeFilter(t)
    [] targetType = TargetTypeIaas -> iaasFilter(t)
    [] targetType = TargetTypeRole -> roleFilter(t)

(* ------------------------------------------------------------------ *)
(* The checkers' check(t, r, e, kind): (bool, error)                   *)
(* ------------------------------------------------------------------ *)

CheckRet(hasPermission, err) == [hasPermission |-> hasPermission, err |-> err]

appCheck(t, e, kind) ==
  LET g == getAppFromContext(e.Target.Value)
  IN IF g.err # NoErr THEN CheckRet(FALSE, g.err)
     ELSE CheckRet(Check(t, perms(TargetTypeApp, kind),
                         Contexts(CtxTeam, g.a.Teams)
                           \o <<Context(CtxApp, g.a.Name), Context(CtxPool, g.a.Pool)>>),
                   NoErr)

teamCheck(t, e, kind) ==
  LET tm == GetTeam(e.Target.Value)
  IN IF tm.err # NoErr THEN CheckRet(FALSE, tm.err)
     ELSE CheckRet(Check(t, perms(TargetTypeTeam, kind),
                         <<Context(CtxTeam, tm.Name)>>), NoErr)

serviceCheck(t, e, kind) ==
  LET g == getService(e.Target.Value)
  IN IF g.err # NoErr THEN CheckRet(FALSE, g.err)
     ELSE CheckRet(Check(t, perms(TargetTypeService, kind),
                         Contexts(CtxTeam, g.s.OwnerTeams)
                           \o <<Context(CtxService, g.s.Name)>>), NoErr)

serviceInstanceCheck(t, e, kind) ==
  LET v == SplitN(e.Target.Value)
      g == getServiceInstanceOrError(v[1], v[2])
  IN IF Len(v) = 2
     THEN IF g.err # NoErr THEN CheckRet(FALSE, g.err)
          ELSE CheckRet(Check(t, perms(TargetTypeServiceInstance, kind),
                              Contexts(CtxTeam, g.si.Teams)
                                \o <<Context(CtxServiceInstance, e.Target.Value)>>),
                        NoErr)
     ELSE CheckRet(FALSE, NoErr)

poolCheck(t, e, kind) ==
  LET p == GetPoolByName(e.Target.Value)
  IN IF p.err # NoErr THEN CheckRet(FALSE, p.err)
     ELSE CheckRet(Check(t, perms(TargetTypePool, kind),
                         <<Context(CtxPool, p.Name)>>), NoErr)

userCheck(t, e, kind) ==
  CheckRet(Check(t, perms(TargetTypeUser, kind), <<Context(CtxGlobal, "")>>), NoErr)

iaasCheck(t, e, kind) ==
  CheckRet(Check(t, perms(TargetTypeIaas, kind),
                 <<Context(CtxIaaS, e.Target.Value)>>), NoErr)

containerCheck(t, e, kind) ==
  LET g == GetAppFromUnitID(e.Target.Value)
  IN IF g.err # NoErr THEN CheckRet(FALSE, g.err)
     ELSE CheckRet(Check(t, perms(TargetTypeContainer, kind),
                         Contexts(CtxTeam, g.a.Teams)
                           \o <<Context(CtxApp, g.a.Name), Context(CtxPool, g.a.Pool)>>),
                   NoErr)

nodeCheck(t, e, kind) ==
  LET l == ListNodes({e.Target.Value})
      ctx == IF Len(l.nodes) > 0 THEN <<Context(CtxPool, l.nodes[1].Pool)>> ELSE <<>>
  IN IF isNodeProvisioner
     THEN IF l.err # NoErr THEN CheckRet(FALSE, l.err)
          ELSE CheckRet(Check(t, perms(TargetTypeNode, kind), ctx), NoErr)
     ELSE CheckRet(FALSE, NoErr)

roleCheck(t, e, kind) ==
  CheckRet(Check(t, perms(TargetTypeRole, kind), <<Context(CtxGlobal, "")>>), NoErr)

\* checker.check(t, r, e, kind), dispatched on the checker's key in evtPermMap.
check(targetType, t, e, kind) ==
  CASE targetType = TargetTypeApp -> appCheck(t, e, kind)
    [] targetType = TargetTypeTeam -> teamCheck(t, e, kind)
    [] targetType = TargetTypeService -> serviceCheck(t, e, kind)
    [] targetType = TargetTypeServiceInstance -> serviceInstanceCheck(t, e, kind)
    [] targetType = TargetTypePool -> poolCheck(t, e, kind)
    [] targetType = TargetTypeUser -> userCheck(t, e, kind)
    [] targetType = TargetTypeContainer -> containerCheck(t, e, kind)
    [] targetType = TargetTypeNode -> nodeCheck(t, e, kind)
    [] targetType = TargetTypeIaas -> iaasCheck(t, e, kind)
    [] targetType = TargetTypeRole -> roleCheck(t, e, kind)

(* ------------------------------------------------------------------ *)
(* The event store (package event)                                     *)
(* ------------------------------------------------------------------ *)

ErrNotCancelable == "event is not cancelable"

\* bson.IsObjectIdHex(uuid), on the identifiers of the model.
IsObjectIdHex(uuid) == uuid \in {"5a0000000000000000000001", "5a0000000000000000000002"}

\* event.GetByID(objID)
GetByID(uuid) ==
  IF "event" \in store.down \/ uuid # evt.ID THEN [err |-> ErrNotFound]
  ELSE [err |-> NoErr]

\* Whether one AllowedTargets entry admits a target: an entry with nil Values
\* admits every value of its type.
admits(tf, target) ==
  /\ tf.Type = target.Type
  /\ \/ tf.Values.isNil
     \/ \E i \in 1..Len(tf.Values.elems) : tf.Values.elems[i] = target.Value

\* event.List(filter): the stored events the filter selects.
List(f) ==
  IF "event" \in store.down THEN [err |-> ErrUpstream("event"), events |-> <<>>]
  ELSE IF /\ f.KindName \in {"", evt.KindName}
          /\ \E i \in 1..Len(f.AllowedTargets) : admits(f.AllowedTargets[i], evt.Target)
  THEN [err |-> NoErr, events |-> <<evt.ID>>]
  ELSE [err |-> NoErr, events |-> <<>>]

\* e.TryCancel(reason, owner): refused once the event has finished or its
\* cancellation was already asked.
TryCancel(e, reason, owner) ==
  IF ~e.Running \/ e.CancelInfo.Asked
  THEN [err |-> ErrNotCancelable, e |-> e]
  ELSE [err |-> NoErr,
        e |-> [e EXCEPT !.CancelInfo =
                 [Asked |-> TRUE, Reason |-> reason, Owner |-> owner]]]

(* ------------------------------------------------------------------ *)
(* filterForPerms and the handlers                                     *)
(* ------------------------------------------------------------------ *)

NilFilter == [KindName |-> "", AllowedTargets |-> <<>>]

\* A target kind that stored events carry and evtPermMap has no key for:
\* evtPermMap[e.Target.Type] is then nil.
UnregisteredTargetType == "platform"

\* permsLoop that skips a checker whose filter fails instead of returning
\* its error.
RECURSIVE permsLoop_skipErr(_, _, _, _)
permsLoop_skipErr(t, order, targets, i) ==
  IF i > Len(order) THEN [err |-> NoErr, targets |-> targets]
  ELSE LET r == filter(order[i], t)
       IN IF r.err = NoErr /\ ~r.isNil
          THEN permsLoop_skipErr(t, order, Append(targets, r.allowed), i + 1)
          ELSE permsLoop_skipErr(t, order, targets, i + 1)

\* for _, checker := range evtPermMap { ... }, in the order the map yields.
RECURSIVE permsLoop(_, _, _, _)
permsLoop(t, order, targets, i) ==
  IF i > Len(order) THEN [err |-> NoErr, targets |-> targets]
  ELSE LET r == filter(order[i], t)
       IN IF r.err # NoErr THEN [err |-> r.err, targets |-> targets]
          ELSE IF ~r.isNil
               THEN permsLoop(t, order, Append(targets, r.allowed), i + 1)
               ELSE permsLoop(t, order, targets, i + 1)

\* filterForPerms that appends to the AllowedTargets the incoming filter
\* carries instead of starting from an empty list.
filterForPerms_noReset(t, f, order) ==
  LET r == permsLoop(t, order, f.AllowedTargets, 1)
  IN IF r.err # NoErr
     THEN [err |-> r.err, isNil |-> TRUE, filter |-> NilFilter]
     ELSE [err |-> NoErr, isNil |-> FALSE,
           filter |-> [f EXCEPT !.AllowedTargets = r.targets]]

\* filterForPerms(t, filter): (*event.Filter, error)
filterForPerms(t, f, order) ==
  LET r == permsLoop(t, order, <<>>, 1)
  IN IF r.err # NoErr
     THEN [err |-> r.err, isNil |-> TRUE, filter |-> NilFilter]
     ELSE [err |-> NoErr, isNil |-> FALSE,
           filter |-> [f EXCEPT !.AllowedTargets = r.targets]]

StatusOK == "200"
StatusNoContent == "204"
StatusBadRequest == "400"
ErrUnauthorized == "401"
StatusNotFound == "404"
\* An error returned as it came from a collaborator.
PlainError == "error"

NoCheck == CheckRet(FALSE, NoErr)
NoPerms == [err |-> NoErr, isNil |-> TRUE, filter |-> NilFilter]

Response(handler, uuid, reason, code, err, calls, checked, filtered) ==
  [handler |-> handler, uuid |-> uuid, reason |-> reason, code |-> code,
   err |-> err, calls |-> calls, checked |-> checked, filtered |-> filtered]

\* The request's filter as decoded from the form: the kind name asked for
\* and whatever AllowedTargets the form carried.
Forms ==
  { [ok |-> TRUE, filter |-> NilFilter],
    [ok |-> TRUE,
     filter |-> [KindName |-> "app.deploy",
                 AllowedTargets |->
                   << TargetFilter(TargetTypeApp, NilValues),
                      TargetFilter(UnregisteredTargetType, NilValues) >>]],
    [ok |-> FALSE, filter |-> NilFilter] }

eventListResponse(t, form, order) ==
  LET p == filterForPerms(t, form.filter, order)
      l == List(p.filter)
  IN IF ~form.ok
     THEN Response("eventList", "", "", StatusBadRequest, "", <<>>, NoCheck, NoPerms)
     ELSE IF p.err # NoErr
     THEN Response("eventList", "", "", PlainError, p.err,
                   <<"filterForPerms">>, NoCheck, p)
     ELSE IF l.err # NoErr
     THEN Response("eventList", "", "", PlainError, l.err,
                   <<"filterForPerms", "event.List">>, NoCheck, p)
     ELSE IF Len(l.events) = 0
     THEN Response("eventList", "", "", StatusNoContent, "",
                   <<"filterForPerms", "event.List">>, NoCheck, p)
     ELSE Response("eventList", "", "", StatusOK, "",
                   <<"filterForPerms", "event.List">>, NoCheck, p)

eventList(form, order) ==
  /\ resp' = eventListResponse(token, form, order)
  /\ UNCHANGED <<token, store, evt>>

\* eventInfo asking the checker for the update scheme instead of the read
\* one.
eventInfoResponse_updateKind(t, uuid) ==
  LET g == GetByID(uuid)
      c == check(evt.Target.Type, t, evt, updateCheckKind)
  IN IF ~IsObjectIdHex(uuid)
     THEN Response("eventInfo", uuid, "", StatusBadRequest, "", <<>>, NoCheck, NoPerms)
     ELSE IF g.err # NoErr
     THEN Response("eventInfo", uuid, "", StatusNotFound, g.err,
                   <<"event.GetByID">>, NoCheck, NoPerms)
     ELSE IF evt.Target.Type \notin evtPermMap
     THEN Response("eventInfo", uuid, "", ErrUnauthorized, "",
                   <<"event.GetByID">>, NoCheck, NoPerms)
     ELSE IF c.err # NoErr
     THEN Response("eventInfo", uuid, "", PlainError, c.err,
                   <<"event.GetByID", "checker.check">>, c, NoPerms)
     ELSE IF ~c.hasPermission
     THEN Response("eventInfo", uuid, "", ErrUnauthorized, "",
                   <<"event.GetByID", "checker.check">>, c, NoPerms)
     ELSE Response("eventInfo", uuid, "", StatusOK, "",
                   <<"event.GetByID", "checker.check">>, c, NoPerms)

\* eventInfo without the test for a nil checker: an event whose kind has no
\* checker is served.
eventInfoResponse_noNilCheck(t, uuid) ==
  LET g == GetByID(uuid)
      c == check(evt.Target.Type, t, evt, readCheckKind)
  IN IF ~IsObjectIdHex(uuid)
     THEN Response("eventInfo", uuid, "", StatusBadRequest, "", <<>>, NoCheck, NoPerms)
     ELSE IF g.err # NoErr
     THEN Response("eventInfo", uuid, "", StatusNotFound, g.err,
                   <<"event.GetByID">>, NoCheck, NoPerms)
     ELSE IF evt.Target.Type \notin evtPermMap
     THEN Response("eventInfo", uuid, "", StatusOK, "",
                   <<"event.GetByID">>, NoCheck, NoPerms)
     ELSE IF c.err # NoErr
     THEN Response("eventInfo", uuid, "", PlainError, c.err,
                   <<"event.GetByID", "checker.check">>, c, NoPerms)
     ELSE IF ~c.hasPermission
     THEN Response("eventInfo", uuid, "", ErrUnauthorized, "",
                   <<"event.GetByID", "checker.check">>, c, NoPerms)
     ELSE Response("eventInfo", uuid, "", StatusOK, "",
                   <<"event.GetByID", "checker.check">>, c, NoPerms)

eventInfoResponse(t, uuid) ==
  LET g == GetByID(uuid)
      c == check(evt.Target.Type, t, evt, readCheckKind)
  IN IF ~IsObjectIdHex(uuid)
     THEN Response("eventInfo", uuid, "", StatusBadRequest, "", <<>>, NoCheck, NoPerms)
     ELSE IF g.err # NoErr
     THEN Response("eventInfo", uuid, "", StatusNotFound, g.err,
                   <<"event.GetByID">>, NoCheck, NoPerms)
     ELSE IF evt.Target.Type \notin evtPermMap
     THEN Response("eventInfo", uuid, "", ErrUnauthorized, "",
                   <<"event.GetByID">>, NoCheck, NoPerms)
     ELSE IF c.err # NoErr
     THEN Response("eventInfo", uuid, "", PlainError, c.err,
                   <<"event.GetByID", "checker.check">>, c, NoPerms)
     ELSE IF ~c.hasPermission
     THEN Response("eventInfo", uuid, "", ErrUnauthorized, "",
                   <<"event.GetByID", "checker.check">>, c, NoPerms)
     ELSE Response("eventInfo", uuid, "", StatusOK, "",
                   <<"event.GetByID", "checker.check">>, c, NoPerms)

eventInfo(uuid) ==
  /\ resp' = eventInfoResponse(token, uuid)
  /\ UNCHANGED <<token, store, evt>>

\* eventCancel checking the permission before the reason.
eventCancelResponse_checkFirst(t, uuid, reason) ==
  LET g == GetByID(uuid)
      c == check(evt.Target.Type, t, evt, updateCheckKind)
      x == TryCancel(evt, reason, t.UserName)
  IN IF ~IsObjectIdHex(uuid)
     THEN Response("eventCancel", uuid, reason, StatusBadRequest, "", <<>>,
                   NoCheck, NoPerms)
     ELSE IF g.err # NoErr
     THEN Response("eventCancel", uuid, reason, StatusNotFound, g.err,
                   <<"event.GetByID">>, NoCheck, NoPerms)
     ELSE IF evt.Target.Type \notin evtPermMap
     THEN Response("eventCancel", uuid, reason, ErrUnauthorized, "",
                   <<"event.GetByID">>, NoCheck, NoPerms)
     ELSE IF c.err # NoErr
     THEN Response("eventCancel", uuid, reason, PlainError, c.err,
                   <<"event.GetByID", "checker.check">>, c, NoPerms)
     ELSE IF ~c.hasPermission
     THEN Response("eventCancel", uuid, reason, ErrUnauthorized, "",
                   <<"event.GetByID", "checker.check">>, c, NoPerms)
     ELSE IF reason = ""
     THEN Response("eventCancel", uuid, reason, StatusBadRequest, "",
                   <<"event.GetByID", "checker.check">>, c, NoPerms)
     ELSE IF x.err = ErrNotCancelable
     THEN Response("eventCancel", uuid, reason, StatusBadRequest, x.err,
                   <<"event.GetByID", "checker.check", "e.TryCancel">>, c, NoPerms)
     ELSE IF x.err # NoErr
     THEN Response("eventCancel", uuid, reason, PlainError, x.err,
                   <<"event.GetByID", "checker.check", "e.TryCancel">>, c, NoPerms)
     ELSE Response("eventCancel", uuid, reason, StatusNoContent, "",
                   <<"event.GetByID", "checker.check", "e.TryCancel">>, c, NoPerms)

\* eventCancel answering 204 whatever TryCancel returns.
eventCancelResponse_ignoreRefusal(t, uuid, reason) ==
  LET g == GetByID(uuid)
      c == check(evt.Target.Type, t, evt, updateCheckKind)
  IN IF ~IsObjectIdHex(uuid)
     THEN Response("eventCancel", uuid, reason, StatusBadRequest, "", <<>>,
                   NoCheck, NoPerms)
     ELSE IF g.err # NoErr
     THEN Response("eventCancel", uuid, reason, StatusNotFound, g.err,
                   <<"event.GetByID">>, NoCheck, NoPerms)
     ELSE IF reason = ""
     THEN Response("eventCancel", uuid, reason, StatusBadRequest, "",
                   <<"event.GetByID">>, NoCheck, NoPerms)
     ELSE IF evt.Target.Type \notin evtPermMap
     THEN Response("eventCancel", uuid, reason, ErrUnauthorized, "",
                   <<"event.GetByID">>, NoCheck, NoPerms)
     ELSE IF c.err # NoErr
     THEN Response("eventCancel", uuid, reason, PlainError, c.err,
                   <<"event.GetByID", "checker.check">>, c, NoPerms)
     ELSE IF ~c.hasPermission
     THEN Response("eventCancel", uuid, reason, ErrUnauthorized, "",
                   <<"event.GetByID", "checker.check">>, c, NoPerms)
     ELSE Response("eventCancel", uuid, reason, StatusNoContent, "",
                   <<"event.GetByID", "checker.check", "e.TryCancel">>, c, NoPerms)

eventCancelResponse(t, uuid, reason) ==
  LET g == GetByID(uuid)
      c == check(evt.Target.Type, t, evt, updateCheckKind)
      x == TryCancel(evt, reason, t.UserName)
  IN IF ~IsObjectIdHex(uuid)
     THEN Response("eventCancel", uuid, reason, StatusBadRequest, "", <<>>,
                   NoCheck, NoPerms)
     ELSE IF g.err # NoErr
     THEN Response("eventCancel", uuid, reason, StatusNotFound, g.err,
                   <<"event.GetByID">>, NoCheck, NoPerms)
     ELSE IF reason = ""
     THEN Response("eventCancel", uuid, reason, StatusBadRequest, "",
                   <<"event.GetByID">>, NoCheck, NoPerms)
     ELSE IF evt.Target.Type \notin evtPermMap
     THEN Response("eventCancel", uuid, reason, ErrUnauthorized, "",
                   <<"event.GetByID">>, NoCheck, NoPerms)
     ELSE IF c.err # NoErr
     THEN Response("eventCancel", uuid, reason, PlainError, c.err,
                   <<"event.GetByID", "checker.check">>, c, NoPerms)
     ELSE IF ~c.hasPermission
     THEN Response("eventCancel", uuid, reason, ErrUnauthorized, "",
                   <<"event.GetByID", "checker.check">>, c, NoPerms)
     ELSE IF x.err = ErrNotCancelable
     THEN Response("eventCancel", uuid, reason, StatusBadRequest, x.err,
                   <<"event.GetByID", "checker.check", "e.TryCancel">>, c, NoPerms)
     ELSE IF x.err # NoErr
     THEN Response("eventCancel", uuid, reason, PlainError, x.err,
                   <<"event.GetByID", "checker.check", "e.TryCancel">>, c, NoPerms)
     ELSE Response("eventCancel", uuid, reason, StatusNoContent, "",
                   <<"event.GetByID", "checker.check", "e.TryCancel">>, c, NoPerms)

eventCancel(uuid, reason) ==
  LET r == eventCancelResponse(token, uuid, reason)
  IN /\ resp' = r
     /\ evt' = IF r.code = StatusNoContent
               THEN TryCancel(evt, reason, token.UserName).e
               ELSE evt
     /\ UNCHANGED <<token, store>>

\* The action an event records finishes; the event stops running.
eventDone ==
  /\ evt.Running
  /\ evt' = [evt EXCEPT !.Running = FALSE]
  /\ UNCHANGED <<token, store, resp>>

(* ------------------------------------------------------------------ *)
(* Initial states                                                      *)
(* ------------------------------------------------------------------ *)

app1 == [Name |-> "app1", Teams |-> <<"alpha">>, Pool |-> "p1", Units |-> <<"u1">>]
svc1 == [Name |-> "svc1", OwnerTeams |-> <<"alpha">>]
inst1 == [ServiceName |-> "svc1", Name |-> "inst1", Teams |-> <<"alpha">>]
node1 == [Address |-> "n1", Pool |-> "p1"]

\* Every resource registered, every store reachable.
FullStore ==
  [apps |-> <<app1>>, teams |-> {"alpha"}, services |-> <<svc1>>,
   instances |-> <<inst1>>, pools |-> {"p1"}, nodes |-> <<node1>>,
   nodeProvisioner |-> TRUE, down |-> {}]

\* No resource registered (every resource an event names is gone).
EmptyStore ==
  [apps |-> <<>>, teams |-> {}, services |-> <<>>, instances |-> <<>>,
   pools |-> {}, nodes |-> <<>>, nodeProvisioner |-> TRUE, down |-> {}]

Down(d) == [FullStore EXCEPT !.down = d]

ResourceStores == {"app", "units", "team", "service", "service-instance", "pool", "node"}

EventStores ==
  { FullStore, EmptyStore, [FullStore EXCEPT !.nodeProvisioner = FALSE],
    Down(ResourceStores), Down({"event"}) }

ListStores ==
  { FullStore, EmptyStore, [FullStore EXCEPT !.nodeProvisioner = FALSE],
    Down({"app"}), Down({"node"}), Down({"app", "node"}), Down({"units"}) }

\* The targets of the stored event.
Targets ==
  { [Type |-> UnregisteredTargetType, Value |-> "python"] } \cup
  { [Type |-> TargetTypeApp, Value |-> "app1"],
    [Type |-> TargetTypeTeam, Value |-> "alpha"],
    [Type |-> TargetTypeService, Value |-> "svc1"],
    [Type |-> TargetTypeServiceInstance, Value |-> "svc1/inst1"],
    [Type |-> TargetTypeServiceInstance, Value |-> "inst1"],
    [Type |-> TargetTypePool, Value |-> "p1"],
    [Type |-> TargetTypeUser, Value |-> "bob"],
    [Type |-> TargetTypeUser, Value |-> "eve"],
    [Type |-> TargetTypeContainer, Value |-> "u1"],
    [Type |-> TargetTypeNode, Value |-> "n1"],
    [Type |-> TargetTypeIaas, Value |-> "ec2"],
    [Type |-> TargetTypeRole, Value |-> "r1"] }

NewEvent(target) ==
  [ID |-> "5a0000000000000000000001", Target |-> target, KindName |-> "app.deploy",
   Running |-> TRUE,
   CancelInfo |-> [Asked |-> FALSE, Reason |-> "", Owner |-> ""]]

Permission(scheme, ctx) == [Scheme |-> scheme, Context |-> ctx]

SeqsUpTo(S, n) == UNION { [1..k -> S] : k \in 0..n }

Token(ps) == [UserName |-> "bob", Permissions |-> ps]

\* The contexts a permission of the event actor is granted in.
EventContexts ==
  { Context(CtxGlobal, ""), Context(CtxTeam, "alpha"), Context(CtxPool, "p1"),
    Context(CtxPool, "p2"), Context(CtxApp, "app1"), Context(CtxIaaS, "ec2") }

\* The contexts a permission of the listing actor is granted in.
ListContexts ==
  { Context(CtxGlobal, ""), Context(CtxTeam, "alpha"), Context(CtxPool, "p1") }

NoResponse == Response("", "", "", "", "", <<>>, NoCheck, NoPerms)

\* The schemes the actor of an event of this kind holds permissions of: the
\* read and update schemes of the kind's checker and, for a kind without a
\* checker, those of the app checker.
SchemesOf(targetType) ==
  { perms(IF targetType \in evtPermMap THEN targetType ELSE TargetTypeApp, k) :
      k \in {readCheckKind, updateCheckKind} }

\* One stored event; the actor holds permissions of the read and update
\* schemes of the event's target kind.
Init ==
  /\ store \in EventStores
  /\ \E target \in Targets :
       /\ evt = NewEvent(target)
       /\ token \in { Token(ps) :
            ps \in SeqsUpTo({ Permission(scheme, c) :
                                scheme \in SchemesOf(target.Type),
                                c \in EventContexts }, MaxEventPerms) }
  /\ resp = NoResponse

ReadSchemes ==
  << PermAppReadEvents, PermTeamReadEvents, PermServiceReadEvents,
     PermServiceInstanceReadEvents, PermPoolReadEvents, PermUserReadEvents,
     PermMachineReadEvents, PermRoleReadEvents >>

SchemeIndex(scheme) == CHOOSE i \in 1..Len(ReadSchemes) : ReadSchemes[i] = scheme

\* The checkers read a token one scheme at a time, so the order of two
\* permissions of different schemes shows in nothing they compute: the
\* listing actors' permissions are taken scheme by scheme, those of one
\* scheme in every order.
Grouped(ps) ==
  \A i \in 1..(Len(ps) - 1) :
     SchemeIndex(ps[i].Scheme) <= SchemeIndex(ps[i + 1].Scheme)

\* The actor holds permissions of the read schemes of any kinds.
InitList ==
  /\ store \in ListStores
  /\ evt = NewEvent([Type |-> TargetTypeApp, Value |-> "app1"])
  /\ token \in { Token(ps) :
       ps \in { q \in SeqsUpTo({ Permission(ReadSchemes[i], c) :
                                   i \in 1..Len(ReadSchemes), c \in ListContexts },
                               MaxPerms) : Grouped(q) } }
  /\ resp = NoResponse

(* ------------------------------------------------------------------ *)
(* Next-state relations                                                *)
(* ------------------------------------------------------------------ *)

kinds ==
  << TargetTypeApp, TargetTypeTeam, TargetTypeService, TargetTypeServiceInstance,
     TargetTypePool, TargetTypeUser, TargetTypeContainer, TargetTypeNode,
     TargetTypeIaas, TargetTypeRole >>

\* The orders in which the range over evtPermMap visits the checkers: Go
\* leaves the order unspecified; the model takes one order and its reverse,
\* so that every two checkers are visited in both relative orders.
Orders ==
  { kinds, [i \in 1..Len(kinds) |-> kinds[Len(kinds) + 1 - i]] }

Uuids == {"5a0000000000000000000001", "5a0000000000000000000002", "not-an-object-id"}

Reasons == {"", "because"}

Next ==
  \/ \E uuid \in Uuids : eventInfo(uuid)
  \/ \E uuid \in Uuids, reason \in Reasons : eventCancel(uuid, reason)
  \/ eventDone

Spec == Init /\ [][Next]_vars

NextList == \E form \in Forms, order \in Orders : eventList(form, order)

SpecList == InitList /\ [][NextList]_vars

(* ------------------------------------------------------------------ *)
(* Properties of the listing scope                                     *)
(* ------------------------------------------------------------------ *)

DirectKinds ==
  { TargetTypeTeam, TargetTypePool, TargetTypeRole, TargetTypeUser, TargetTypeIaas }

ResolvedKinds ==
  { TargetTypeApp, TargetTypeService, TargetTypeServiceInstance, TargetTypeContainer }

\* The three listing scopes a filter() can return without error.
Absent(r) == r.err = NoErr /\ r.isNil
Unrestricted(r) == r.err = NoErr /\ ~r.isNil /\ r.allowed.Values.isNil
Restricted(r) == r.err = NoErr /\ ~r.isNil /\ ~r.allowed.Values.isNil

readContexts(t, k) == ContextsForPermission(t, perms(k, readCheckKind))

HasGlobal(t, k) ==
  \E i \in 1..Len(readContexts(t, k)) : readContexts(t, k)[i].CtxType = CtxGlobal

\* The context type whose values a direct-context kind lists.
OwnCtx(k) ==
  CASE k = TargetTypeTeam -> CtxTeam
    [] k = TargetTypePool -> CtxPool
    [] k = TargetTypeIaas -> CtxIaaS
    [] k = TargetTypeUser -> CtxUser
    [] k = TargetTypeRole -> "role"

RECURSIVE valuesOf(_, _, _)
valuesOf(contexts, ctxType, i) ==
  IF i > Len(contexts) THEN <<>>
  ELSE IF contexts[i].CtxType = ctxType
       THEN <<contexts[i].Value>> \o valuesOf(contexts, ctxType, i + 1)
       ELSE valuesOf(contexts, ctxType, i + 1)

\* A request for the listing whose filter was resolved.
Listed == resp.handler = "eventList" /\ resp.calls # <<>>

\* The AllowedTargets entries of a kind in the filter the request resolved.
Entries(k) ==
  { i \in 1..Len(resp.filtered.filter.AllowedTargets) :
      resp.filtered.filter.AllowedTargets[i].Type = k }

\* C1: if filter() of a kind returns a restricted allow-list that contains
\* X, check() of that kind on an event whose target is (kind, X), in Read
\* mode, returns true; for every kind, the User kind included. Stated of
\* the scopes a listing request resolved.
C1_ListingImpliesCheck ==
  (Listed /\ resp.filtered.err = NoErr) =>
     \A i \in 1..Len(resp.filtered.filter.AllowedTargets) :
        LET tf == resp.filtered.filter.AllowedTargets[i]
        IN ~tf.Values.isNil =>
             \A j \in 1..Len(tf.Values.elems) :
                check(tf.Type, token,
                      NewEvent([Type |-> tf.Type, Value |-> tf.Values.elems[j]]),
                      readCheckKind) = CheckRet(TRUE, NoErr)

\* C2 as claimed: with a Global context for the read scheme, filter() of
\* every one of the ten kinds returns an unrestricted scope. Stated of the
\* scopes a listing request resolved.
C2_GlobalUnrestrictedAllKinds ==
  (Listed /\ resp.filtered.err = NoErr) =>
     \A k \in evtPermMap :
        HasGlobal(token, k) =>
          /\ Entries(k) # {}
          /\ \A i \in Entries(k) : resp.filtered.filter.AllowedTargets[i].Values.isNil

\* Whether a Pool context comes before the first Global context.
PoolBeforeGlobal(contexts) ==
  \E i \in 1..Len(contexts) :
     /\ contexts[i].CtxType = CtxPool
     /\ \A j \in 1..i : contexts[j].CtxType # CtxGlobal

\* The identities of a resolved-identity kind the stores hold.
Identities(k) ==
  CASE k = TargetTypeApp -> [i \in 1..Len(store.apps) |-> store.apps[i].Name]
    [] k = TargetTypeService ->
         [i \in 1..Len(store.services) |-> store.services[i].Name]
    [] k = TargetTypeServiceInstance ->
         [i \in 1..Len(store.instances) |->
            serviceIntancePermName(store.instances[i].ServiceName,
                                   store.instances[i].Name)]
    [] k = TargetTypeContainer ->
         IF Len(store.apps) = 0 THEN <<>> ELSE store.apps[1].Units

\* The stores filter() of a resolved-identity kind asks.
StoresOf(k) ==
  CASE k = TargetTypeApp -> {"app"}
    [] k = TargetTypeService -> {"service"}
    [] k = TargetTypeServiceInstance -> {"service-instance"}
    [] k = TargetTypeContainer -> {"app", "units"}

\* C2, amended: with a Global context for the read scheme, in whatever
\* order, filter() of Team, Pool, Role, User and IaaS returns unrestricted;
\* filter() of Node returns unrestricted, or the node registry's error when
\* a Pool context comes before the first Global one and listing the nodes
\* fails; filter() of Application, Service, ServiceInstance and Container
\* never returns unrestricted: it returns the store's error, absent when the
\* store lists no entity, and otherwise the allow-list of every identity the
\* store lists.
C2_GlobalScope ==
  \A k \in evtPermMap :
     LET r == filter(k, token)
     IN HasGlobal(token, k) =>
          /\ k \in DirectKinds => Unrestricted(r)
          /\ k = TargetTypeNode =>
               IF /\ PoolBeforeGlobal(readContexts(token, k))
                  /\ isNodeProvisioner /\ "node" \in store.down
               THEN r = RetErr(ErrUpstream("node"))
               ELSE Unrestricted(r)
          /\ k \in ResolvedKinds =>
               IF StoresOf(k) \cap store.down # {}
               THEN r.err # NoErr /\ r.isNil
               ELSE IF k = TargetTypeContainer
                    THEN IF Len(store.apps) = 0 THEN Absent(r)
                         ELSE Restricted(r) /\ r.allowed.Values.elems = Identities(k)
                    ELSE IF Len(Identities(k)) = 0 THEN Absent(r)
                         ELSE Restricted(r) /\ r.allowed.Values.elems = Identities(k)

\* C2, the case reached: the actor holds a Pool context and then a Global
\* one for pool-read events, and the listing resolved Pool and Node scopes
\* that are both unrestricted.
C2_Witness ==
  /\ Listed
  /\ readContexts(token, TargetTypePool) =
       <<Context(CtxPool, "p1"), Context(CtxGlobal, "")>>
  /\ \E i \in Entries(TargetTypePool) :
        resp.filtered.filter.AllowedTargets[i].Values.isNil
  /\ \E i \in Entries(TargetTypeNode) :
        resp.filtered.filter.AllowedTargets[i].Values.isNil

\* C3: for Team, Pool, Role, User and IaaS, an actor with at least one
\* context for the read scheme, none of them Global, gets a restricted scope
\* whose allow-list is exactly the values of the contexts of the kind's own
\* type, and never an unrestricted scope. Stated of the scopes a listing
\* request resolved.
C3_DirectKindsRestricted ==
  (Listed /\ resp.filtered.err = NoErr) =>
     \A k \in DirectKinds :
        LET contexts == readContexts(token, k)
        IN (Len(contexts) > 0 /\ ~HasGlobal(token, k)) =>
             /\ Entries(k) # {}
             /\ \A i \in Entries(k) :
                   LET tf == resp.filtered.filter.AllowedTargets[i]
                   IN /\ ~tf.Values.isNil
                      /\ tf.Values.elems = valuesOf(contexts, OwnCtx(k), 1)

\* C4 as claimed: a kind for whose read scheme the actor holds no context
\* has no entry in the filter filterForPerms produces; for all ten kinds.
C4_NoContextsNoEntryAllKinds ==
  (Listed /\ resp.filtered.err = NoErr) =>
     \A k \in evtPermMap : Len(readContexts(token, k)) = 0 => Entries(k) = {}

\* C4, amended: a kind other than User for whose read scheme the actor holds
\* no context has no entry in the filter filterForPerms produces; the User
\* kind then has one entry, restricted to the actor's own user name.
C4_NoContextsNoEntry ==
  (Listed /\ resp.filtered.err = NoErr) =>
     \A k \in evtPermMap :
        Len(readContexts(token, k)) = 0 =>
          IF k = TargetTypeUser
          THEN /\ Cardinality(Entries(k)) = 1
               /\ \A i \in Entries(k) :
                     resp.filtered.filter.AllowedTargets[i].Values =
                       SliceOf(<<token.UserName>>)
          ELSE Entries(k) = {}

\* C4, the case reached: the actor holds a team-read context and no
\* pool-read context; the filter produced has a Team entry and no Pool
\* entry.
C4_Witness ==
  /\ Listed /\ resp.filtered.err = NoErr
  /\ Len(readContexts(token, TargetTypeTeam)) > 0
  /\ Len(readContexts(token, TargetTypePool)) = 0
  /\ Entries(TargetTypeTeam) # {}
  /\ Entries(TargetTypePool) = {}

\* C5: the filter filterForPerms produces always holds a User entry that
\* admits the actor's own user name, whatever contexts the actor holds.
C5_SelfScope ==
  /\ \E r \in {userFilter(token)} :
        /\ r.err = NoErr /\ ~r.isNil
        /\ admits(r.allowed, [Type |-> TargetTypeUser, Value |-> token.UserName])
  /\ (Listed /\ resp.filtered.err = NoErr) =>
        \E i \in Entries(TargetTypeUser) :
           admits(resp.filtered.filter.AllowedTargets[i],
                  [Type |-> TargetTypeUser, Value |-> token.UserName])

\* C5, the case reached: an actor with no permission at all listed the
\* events, and the filter holds the User entry of the actor's own name.
C5_Witness ==
  /\ Listed /\ resp.filtered.err = NoErr
  /\ token.Permissions = <<>>
  /\ resp.filtered.filter.AllowedTargets =
       <<TargetFilter(TargetTypeUser, SliceOf(<<token.UserName>>))>>

\* C10: when filter() of any checker returns an error, filterForPerms
\* returns the error of one of the failing checkers and no filter, and
\* eventList returns that error without calling event.List; event.List is
\* only ever called with the scopes of all ten checkers.
C10_FailClosed ==
  Listed =>
     LET failing == { k \in evtPermMap : filter(k, token).err # NoErr }
         present == { k \in evtPermMap : ~filter(k, token).isNil }
     IN IF failing # {}
        THEN /\ resp.filtered.isNil
             /\ resp.filtered.filter = NilFilter
             /\ resp.filtered.err \in { filter(k, token).err : k \in failing }
             /\ resp.code = PlainError /\ resp.err = resp.filtered.err
             /\ resp.calls = <<"filterForPerms">>
        ELSE /\ resp.calls = <<"filterForPerms", "event.List">>
             /\ resp.filtered.err = NoErr /\ ~resp.filtered.isNil
             /\ \A k \in evtPermMap :
                   IF k \in present
                   THEN \E i \in Entries(k) :
                          resp.filtered.filter.AllowedTargets[i] = filter(k, token).allowed
                   ELSE Entries(k) = {}

\* C10, the case reached: the application store and the node registry both
\* fail, the checkers of both are asked, and the listing ended with an error
\* before event.List.
C10_Witness ==
  /\ Listed
  /\ filter(TargetTypeApp, token).err # NoErr
  /\ filter(TargetTypeNode, token).err # NoErr
  /\ resp.code = PlainError
  /\ resp.err = ErrUpstream("node")
  /\ resp.calls = <<"filterForPerms">>

(* ------------------------------------------------------------------ *)
(* Properties of fetching and canceling one event                      *)
(* ------------------------------------------------------------------ *)

\* check() of the stored event's checker, as the handlers call it.
checkOf(kind) == check(evt.Target.Type, token, evt, kind)

\* The stored event can no longer be canceled: it finished, or its
\* cancellation was already asked.
Settled == ~evt.Running \/ evt.CancelInfo.Asked

CancelOfSettled ==
  /\ resp' # resp /\ resp'.handler = "eventCancel"
  /\ IsObjectIdHex(resp'.uuid) /\ GetByID(resp'.uuid).err = NoErr
  /\ resp'.reason # ""
  /\ Settled

\* C7 as claimed: a cancel request with a reason on an event already
\* canceled or finished yields the not-cancelable outcome (400) for every
\* actor, whether check() in Update mode returns true or false for the
\* actor. Stated where check() returns without an error.
C7_SettledAlwaysNotCancelable ==
  [][( /\ CancelOfSettled
       /\ evt.Target.Type \in evtPermMap => checkOf(updateCheckKind).err = NoErr ) =>
       resp'.code = StatusBadRequest /\ resp'.err = ErrNotCancelable]_vars

\* C7, amended: a cancel request with a reason on an event already canceled
\* or finished never succeeds and leaves the event as it was, for every
\* actor; it yields the not-cancelable outcome (400) when check() in Update
\* mode returns true, 401 when it returns false or the kind has no checker,
\* and the checker's error when it fails.
C7_SettledNeverCanceled ==
  [][CancelOfSettled =>
       /\ resp'.code # StatusNoContent
       /\ evt' = evt
       /\ IF evt.Target.Type \notin evtPermMap
          THEN resp'.code = ErrUnauthorized
          ELSE /\ checkOf(updateCheckKind) = CheckRet(TRUE, NoErr) =>
                    resp'.code = StatusBadRequest /\ resp'.err = ErrNotCancelable
               /\ checkOf(updateCheckKind) = CheckRet(FALSE, NoErr) =>
                    resp'.code = ErrUnauthorized
               /\ checkOf(updateCheckKind).err # NoErr =>
                    /\ resp'.code = PlainError
                    /\ resp'.err = checkOf(updateCheckKind).err]_vars

\* C7, the case reached: a cancel of a finished event by an authorized
\* actor was refused as not cancelable.
C7_Witness ==
  /\ resp.handler = "eventCancel"
  /\ resp.code = StatusBadRequest /\ resp.err = ErrNotCancelable
  /\ ~evt.Running
  /\ resp.checked = CheckRet(TRUE, NoErr)

\* C8 as claimed: eventInfo returns 404 when the id is not a valid
\* identifier or no event has it, 401 when check() in Read mode denies or no
\* checker is registered, and 200 otherwise. Stated where check() returns
\* without an error.
C8_InfoOutcomeAsClaimed ==
  (resp.handler = "eventInfo" /\ resp.code # PlainError) =>
    resp.code =
      IF ~IsObjectIdHex(resp.uuid) \/ GetByID(resp.uuid).err # NoErr
      THEN StatusNotFound
      ELSE IF \/ evt.Target.Type \notin evtPermMap
              \/ ~checkOf(readCheckKind).hasPermission
      THEN ErrUnauthorized
      ELSE StatusOK

\* C8, amended: eventInfo returns 400 when the id is not a valid
\* identifier, 404 when no event has it, 401 when no checker is registered
\* or check() in Read mode returns false, the checker's error when check()
\* fails, and 200 otherwise.
C8_InfoOutcome ==
  resp.handler = "eventInfo" =>
    IF ~IsObjectIdHex(resp.uuid)
    THEN resp.code = StatusBadRequest /\ resp.calls = <<>>
    ELSE IF GetByID(resp.uuid).err # NoErr
    THEN resp.code = StatusNotFound
    ELSE IF evt.Target.Type \notin evtPermMap
    THEN resp.code = ErrUnauthorized
    ELSE IF checkOf(readCheckKind).err # NoErr
    THEN resp.code = PlainError /\ resp.err = checkOf(readCheckKind).err
    ELSE IF ~checkOf(readCheckKind).hasPermission
    THEN resp.code = ErrUnauthorized
    ELSE resp.code = StatusOK

\* C8, the case reached: a fetch with a malformed id ended 400, before the
\* event store was asked.
C8_Witness ==
  /\ resp.handler = "eventInfo"
  /\ resp.uuid = "not-an-object-id"
  /\ resp.code = StatusBadRequest

\* Whether the resource the stored event names is registered.
Registered ==
  CASE evt.Target.Type = TargetTypeApp -> getAppFromContext(evt.Target.Value).err = NoErr
    [] evt.Target.Type = TargetTypeTeam -> GetTeam(evt.Target.Value).err = NoErr
    [] evt.Target.Type = TargetTypeService -> getService(evt.Target.Value).err = NoErr
    [] evt.Target.Type = TargetTypeServiceInstance ->
         /\ Len(SplitN(evt.Target.Value)) = 2
         /\ getServiceInstanceOrError(SplitN(evt.Target.Value)[1],
                                      SplitN(evt.Target.Value)[2]).err = NoErr
    [] evt.Target.Type = TargetTypePool -> GetPoolByName(evt.Target.Value).err = NoErr
    [] evt.Target.Type = TargetTypeContainer ->
         GetAppFromUnitID(evt.Target.Value).err = NoErr
    [] OTHER -> TRUE

\* C9: an actor with a Global context for the read scheme of the event's
\* kind may fetch the event: check() in Read mode returns true and eventInfo
\* returns 200; for Node events also when the provisioner lists no nodes or
\* the node is no longer registered. Stated where every store answers and
\* the resource the event names is registered.
C9_GlobalFetchesAnyEvent ==
  ( /\ resp.handler = "eventInfo"
    /\ IsObjectIdHex(resp.uuid) /\ GetByID(resp.uuid).err = NoErr
    /\ store.down = {}
    /\ Registered
    /\ evt.Target.Type \in evtPermMap
    /\ HasGlobal(token, evt.Target.Type) ) =>
       /\ resp.checked = CheckRet(TRUE, NoErr)
       /\ resp.code = StatusOK

(* ------------------------------------------------------------------ *)
(* Events of a kind without a checker                                  *)
(* ------------------------------------------------------------------ *)

\* A request that named the stored event: its id is well formed and the
\* event store returned the event.
Found == IsObjectIdHex(resp.uuid) /\ GetByID(resp.uuid).err = NoErr

NodesOfPools(contexts) ==
  { store.nodes[i].Address : i \in { j \in 1..Len(store.nodes) :
      \E c \in 1..Len(contexts) :
         /\ contexts[c].CtxType = CtxPool
         /\ contexts[c].Value = store.nodes[j].Pool } }

\* C12: in the scope a listing resolved, when the provisioner lists no
\* nodes there is no Node entry, for every actor; when it does, and the
\* actor holds pool-read contexts none of which is Global, the Node entries
\* are restricted and list exactly the addresses of the nodes whose pool is
\* one of the actor's Pool contexts: no address when those pools hold no
\* node, never every node.
C12_NodeScope ==
  (Listed /\ resp.filtered.err = NoErr) =>
    LET contexts == readContexts(token, TargetTypeNode)
        targets == resp.filtered.filter.AllowedTargets
    IN /\ ~isNodeProvisioner => Entries(TargetTypeNode) = {}
       /\ ( /\ isNodeProvisioner
            /\ Len(contexts) > 0
            /\ ~HasGlobal(token, TargetTypeNode) ) =>
              /\ \A i \in Entries(TargetTypeNode) :
                    /\ ~targets[i].Values.isNil
                    /\ { targets[i].Values.elems[j] :
                           j \in 1..Len(targets[i].Values.elems) } =
                         NodesOfPools(contexts)
              /\ NodesOfPools(contexts) # {} => Entries(TargetTypeNode) # {}

(* ------------------------------------------------------------------ *)
(* The listing scope and the request                                   *)
(* ------------------------------------------------------------------ *)

\* A listing request whose filter filterForPerms resolved without error.
Resolved(r) == r.handler = "eventList" /\ r.calls # <<>> /\ r.filtered.err = NoErr

\* The entries of an AllowedTargets list, without their order.
EntrySet(targets) == { targets[i] : i \in 1..Len(targets) }

\* C13 as claimed: two listing requests of the same actor, whatever their
\* forms, pass the same AllowedTargets to event.List.
C13_SameAllowedTargets ==
  [][(Resolved(resp) /\ Resolved(resp')) =>
       resp'.filtered.filter.AllowedTargets = resp.filtered.filter.AllowedTargets]_vars

\* C13, amended: every entry of the AllowedTargets passed to event.List is
\* the scope a checker of evtPermMap returned for the actor, its Type the
\* checker's own kind, and no two entries have the same Type; nothing the
\* form carried is among them. Two listing requests of the same actor,
\* whatever their forms, pass the same entries; the order of the entries is
\* that of the range over evtPermMap and may differ between them.
C13_ScopeFromActorOnly ==
  [][Resolved(resp') =>
       LET targets == resp'.filtered.filter.AllowedTargets
       IN /\ \A i \in 1..Len(targets) :
                /\ targets[i].Type \in evtPermMap
                /\ filter(targets[i].Type, token) = RetAllowed(targets[i])
                /\ \A j \in 1..Len(targets) :
                      targets[j].Type = targets[i].Type => j = i
          /\ Resolved(resp) =>
                /\ EntrySet(targets) = EntrySet(resp.filtered.filter.AllowedTargets)
                /\ Len(targets) = Len(resp.filtered.filter.AllowedTargets)]_vars

\* C13, the case reached: a request whose form carried unrestricted entries
\* for Application events, by an actor with no scope for Application events,
\* passed event.List two entries or more, none of them of that kind.
C13_Witness ==
  /\ Resolved(resp)
  /\ resp.filtered.filter.KindName = "app.deploy"
  /\ filter(TargetTypeApp, token).isNil
  /\ Entries(TargetTypeApp) = {}
  /\ Len(resp.filtered.filter.AllowedTargets) >= 2

====
